---- MODULE Spec2Model ----
(***************************************************************************)
(* The JSRE event loop (jsre.go): one goroutine owns the otto vm and the   *)
(* timer registry; host goroutines hand it evaluation requests over the    *)
(* unbuffered evalQueue channel, time.AfterFunc goroutines hand it expired *)
(* timers over the unbuffered ready channel, and Stop hands it a drain     *)
(* flag over stopEventLoop and waits on loopWg.                            *)
(***************************************************************************)
EXTENDS Integers, Sequences, FiniteSets, TLC

\* ---------------------------------------------------------------- bounds
MaxTimers == 2          \* timers a run may register
MaxReqs == 2            \* do() calls of all host goroutines together
MaxExtra == 2           \* arguments after the delay in a setTimeout call

Callers == {"h1", "h2"}         \* host goroutines calling do()
Stoppers == {"s1", "s2"}        \* host goroutines calling Stop()
StopFlag == [s \in Stoppers |-> s = "s1"]  \* s1 calls Stop(true), s2 Stop(false)
Delays == {0}                   \* delay arguments of setTimeout/setInterval
AllDelays == {0, 3}             \* delay arguments in the timer specification
Handles == 1 .. MaxTimers

\* script values, as << kind, content >>
Cb == << "function", 0 >>
Num(n) == << "number", n >>
Str(k) == << "string", k >>             \* a string that is no numeral
Undefined == << "undefined", 0 >>
Nil == << "nil", 0 >>                   \* a nil interface{} handed to vm.Call

\* the argument list of a setTimeout(cb, d) call
TimerCall(d) == << Cb, Num(d) >>

\* argument lists in the call specification: cb alone, or cb, a delay of any
\* kind and up to MaxExtra further arguments
DelayArgs == {Num(-1), Num(0), Num(1), Num(3), Undefined, Str(2)}
ExtraArgs == {Str(1), Num(7)}
SeqsUpTo(S, n) == UNION {[1 .. k -> S] : k \in 0 .. n}
ArgLists ==
    {<< Cb >>} \cup
    {<< Cb, d >> \o x : d \in DelayArgs, x \in SeqsUpTo(ExtraArgs, MaxExtra)}

VARIABLES
    pc,                 \* position of runEventLoop
    req,                \* caller of the request the loop has received, or NoOne
    timer,              \* the timer the loop has received from ready, or NoTimer
    invoked,            \* function and arguments of the running callback
    jsErr,              \* the running vm.Call returns an error
    reentered,          \* do() has been called on the loop goroutine
    waitForCallbacks,   \* local of runEventLoop
    registry,           \* map[*jsTimer]*jsTimer, as its key set
    nextTimer,          \* number of jsTimer objects allocated so far
    interval,           \* jsTimer.interval
    duration,           \* jsTimer.duration, in ms
    call,               \* jsTimer.call.ArgumentList
    tstate,             \* jsTimer.timer: "none", "armed", "sending", "idle"
    armedFor,           \* delay the time.Timer was last armed with
    loopWg,             \* sync.WaitGroup counter
    evalQueue,          \* goroutines blocked in evalQueue <- req, oldest first
    stopQueue,          \* goroutines blocked in stopEventLoop <- flag
    cstate,             \* position of each do() caller
    ticket,             \* arrival number of the caller's queued request
    closed,             \* times the current request's done channel was closed
    ran,                \* the current request's fn has run to completion
    sstate,             \* position of each Stop() caller
    fires,              \* callback invocations per timer: 0, 1, 2 = "more"
    cancelled,          \* handles clearTimeout/clearInterval has been applied to
    running,            \* pieces of script logic executing against the vm
    arrivals,           \* requests that have arrived at evalQueue
    served,             \* requests the loop has received from evalQueue
    newPc,              \* the statement of New its caller is about to execute
    touched             \* goroutines that have accessed the vm or its objects

vars == << pc, req, timer, invoked, jsErr, reentered, waitForCallbacks,
           registry, nextTimer, interval, duration, call, tstate, armedFor,
           loopWg, evalQueue, stopQueue, cstate,
           ticket, closed, ran, sstate, fires, cancelled, running,
           arrivals, served, newPc, touched >>

loopVars == << pc, req, timer, invoked, jsErr, reentered, waitForCallbacks,
              loopWg, running >>
timerVars == << registry, nextTimer, interval, duration, call, tstate, armedFor,
                fires, cancelled >>
callerVars == << evalQueue, cstate, ticket, closed, ran, arrivals, served >>
stopVars == << stopQueue, sstate >>
newVars == << newPc, touched >>

NoOne == "none"
NoTimer == 0

\* a piece of script logic: a request's fn or a timer's callback
ReqFn(c) == << "req", c, NoTimer >>
Callback(t) == << "timer", NoOne, t >>

Min(a, b) == IF a < b THEN a ELSE b

\* ------------------------------------------------------------ construction
\* the statements of New after go re.runEventLoop(), in order
NewProgram ==
    << "Compile", "Set loadScript", "Set fs", "Get fs", "Set process",
       "Get process",
       "fs.Set readFile", "fs.Set writeFile", "fs.Set appendFile",
       "fs.Set readdir",
       "processObj.Set env", "processObj.Set argv", "processObj.Set chdir",
       "processObj.Set exec",
       "Run loadScript", "Run process.env" >>

\* the statements that call re.Compile, re.Set, re.Get or re.Run, which go
\* through do()
NewViaQueue ==
    {"Compile", "Set loadScript", "Set fs", "Get fs", "Set process",
     "Get process", "Run loadScript", "Run process.env"}

\* the statements that call Set on an *otto.Object
NewDirect ==
    {"fs.Set readFile", "fs.Set writeFile", "fs.Set appendFile",
     "fs.Set readdir", "processObj.Set env", "processObj.Set argv",
     "processObj.Set chdir", "processObj.Set exec"}

NewReturned == Len(NewProgram) + 1

\* the goroutine that calls New
Constructor == "h1"

\* the loop goroutine, which creates the vm with otto.New()
LoopGoroutine == "loop"

Init ==
    /\ pc = "select"
    /\ req = NoOne
    /\ timer = NoTimer
    /\ invoked = << >>
    /\ jsErr = FALSE
    /\ reentered = FALSE
    /\ waitForCallbacks = FALSE
    /\ registry = {}
    /\ nextTimer = 0
    /\ interval = [t \in Handles |-> FALSE]
    /\ duration = [t \in Handles |-> 0]
    /\ call = [t \in Handles |-> << >>]
    /\ tstate = [t \in Handles |-> "none"]
    /\ armedFor = [t \in Handles |-> 0]
    /\ loopWg = 1
    /\ evalQueue = << >>
    /\ stopQueue = << >>
    /\ cstate = [c \in Callers |-> "idle"]
    /\ ticket = [c \in Callers |-> 0]
    /\ closed = [c \in Callers |-> 0]
    /\ ran = [c \in Callers |-> FALSE]
    /\ sstate = [s \in Stoppers |-> "idle"]
    /\ fires = [t \in Handles |-> 0]
    /\ cancelled = {}
    /\ running = {}
    /\ arrivals = 0
    /\ served = 0
    /\ newPc = NewReturned
    /\ touched = {LoopGoroutine}

\* the state after go re.runEventLoop(), before the remainder of New
NewInit ==
    /\ pc = "select"
    /\ req = NoOne
    /\ timer = NoTimer
    /\ invoked = << >>
    /\ jsErr = FALSE
    /\ reentered = FALSE
    /\ waitForCallbacks = FALSE
    /\ registry = {}
    /\ nextTimer = 0
    /\ interval = [t \in Handles |-> FALSE]
    /\ duration = [t \in Handles |-> 0]
    /\ call = [t \in Handles |-> << >>]
    /\ tstate = [t \in Handles |-> "none"]
    /\ armedFor = [t \in Handles |-> 0]
    /\ loopWg = 1
    /\ evalQueue = << >>
    /\ stopQueue = << >>
    /\ cstate = [c \in Callers |-> "idle"]
    /\ ticket = [c \in Callers |-> 0]
    /\ closed = [c \in Callers |-> 0]
    /\ ran = [c \in Callers |-> FALSE]
    /\ sstate = [s \in Stoppers |-> "idle"]
    /\ fires = [t \in Handles |-> 0]
    /\ cancelled = {}
    /\ running = {}
    /\ arrivals = 0
    /\ served = 0
    /\ newPc = 1
    /\ touched = {LoopGoroutine}

\* ------------------------------------------------------------ timer builtins
\* call.Argument(i): the i-th argument, counted from 0, undefined if absent
Argument(args, i) == IF i < Len(args) THEN args[i + 1] ELSE Undefined

\* Value.ToInteger, its error dropped: 0 for a value that is no number
ToInteger(v) == IF v[1] = "number" THEN v[2] ELSE 0

\* newTimer: a delay that is not positive becomes 1
ClampNegative(delay) == IF 0 > delay THEN 1 ELSE delay
ClampDelay(delay) == IF 0 >= delay THEN 1 ELSE delay

\* newTimer: delay, _ := call.Argument(1).ToInteger(), clamped
DelayOf(args) == ClampDelay(ToInteger(Argument(args, 1)))

\* the loop goroutine is inside req.fn or inside a timer callback
InScript == pc \in {"fn", "callback"}

\* setTimeout / setInterval -> newTimer, called by script code
SetTimer(isInterval, args) ==
    /\ InScript
    /\ nextTimer < MaxTimers
    /\ LET t == nextTimer + 1 IN
        /\ nextTimer' = t
        /\ interval' = [interval EXCEPT ![t] = isInterval]
        /\ duration' = [duration EXCEPT ![t] = DelayOf(args)]
        /\ call' = [call EXCEPT ![t] = args]
        /\ registry' = registry \cup {t}
        /\ tstate' = [tstate EXCEPT ![t] = "armed"]
        /\ armedFor' = [armedFor EXCEPT ![t] = DelayOf(args)]
    /\ UNCHANGED << fires, cancelled >>
    /\ UNCHANGED << loopVars, callerVars, stopVars >>
    /\ UNCHANGED newVars

\* time.Timer.Stop replaced by a call that arms a timer that is not armed
TimerStopOrArm(st) == IF st = "armed" THEN "idle" ELSE "armed"

\* time.Timer.Stop: disarms an armed timer; a timer whose AfterFunc goroutine
\* already runs (blocked in ready <- timer) is not recalled
TimerStop(st) == IF st = "armed" THEN "idle" ELSE st

\* an argument of clearTimeout that is no *jsTimer (undefined, a number, ...)
NotAHandle == 0
ClearArgs == Handles \cup {NotAHandle}

\* timer, ok := timer.(*jsTimer)
IsTimer(v) == v \in Handles

\* clearTimeout: timer.timer.Stop() and delete(registry, timer), if ok
ClearTimers(ts, v) == IF IsTimer(v) THEN [ts EXCEPT ![v] = TimerStop(@)] ELSE ts
ClearRegistry(reg, v) == IF IsTimer(v) THEN reg \ {v} ELSE reg

\* clearTimeout / clearInterval, called by script code with any value
ClearTimer(v) ==
    /\ InScript
    /\ IsTimer(v) => v <= nextTimer
    /\ tstate' = ClearTimers(tstate, v)
    /\ registry' = ClearRegistry(registry, v)
    /\ cancelled' = IF IsTimer(v) THEN cancelled \cup {v} ELSE cancelled
    /\ UNCHANGED << nextTimer, interval, duration, call, armedFor, fires >>
    /\ UNCHANGED << loopVars, callerVars, stopVars >>
    /\ UNCHANGED newVars

\* the time.AfterFunc goroutine deletes the timer itself before it sends
ExpireAndRemove(t) ==
    /\ tstate[t] = "armed"
    /\ tstate' = [tstate EXCEPT ![t] = "sending"]
    /\ registry' = registry \ {t}
    /\ UNCHANGED << nextTimer, interval, duration, call, armedFor, fires,
                    cancelled >>
    /\ UNCHANGED << loopVars, callerVars, stopVars >>
    /\ UNCHANGED newVars

\* the time.AfterFunc goroutine starts and blocks in ready <- timer
Expire(t) ==
    /\ tstate[t] = "armed"
    /\ tstate' = [tstate EXCEPT ![t] = "sending"]
    /\ UNCHANGED << registry, nextTimer, interval, duration, call, armedFor,
                    fires, cancelled >>
    /\ UNCHANGED << loopVars, callerVars, stopVars >>
    /\ UNCHANGED newVars

\* ------------------------------------------------------------ the event loop
\* the loop goroutine is blocked in the select statement
AtSelectOrBusy == pc \in {"select", "fn", "callback"}
AtSelect == pc = "select"

\* the break condition after a one-shot timer and after a request
DrainDoneAnyway(reg) == waitForCallbacks
DrainDone(reg) == waitForCallbacks /\ reg = {}

\* the arguments slice built for vm.Call, with the delay kept in it
BuildArgumentsFromDelay(argList) ==
    IF Len(argList) > 1
      THEN << argList[1], Nil >> \o SubSeq(argList, 2, Len(argList))
      ELSE << argList[1] >>

\* the arguments slice built for vm.Call: the callback, then (if there are
\* arguments after the delay) an empty slot and those arguments
BuildArguments(argList) ==
    IF Len(argList) > 2
      THEN << argList[1], Nil >> \o SubSeq(argList, 3, Len(argList))
      ELSE << argList[1] >>

\* vm.Call(`Function.call.call`, nil, f, this, a...): f is called with the
\* arguments a..., the slot after f being its this value
FunctionCallCall(arguments) ==
    << arguments[1] >> \o SubSeq(arguments, 3, Len(arguments))

\* case timer := <-ready, up to the vm.Call of the callback
ReceiveReady(t, err) ==
    /\ AtSelect
    /\ tstate[t] = "sending"
    /\ tstate' = [tstate EXCEPT ![t] = "idle"]
    /\ pc' = "callback"
    /\ timer' = t
    /\ invoked' = FunctionCallCall(BuildArguments(call[t]))
    /\ jsErr' = err
    /\ running' = running \cup {Callback(t)}
    /\ fires' = [fires EXCEPT ![t] = Min(@ + 1, 2)]
    /\ UNCHANGED << req, reentered, waitForCallbacks, loopWg >>
    /\ UNCHANGED << registry, nextTimer, interval, duration, call, armedFor,
                    cancelled >>
    /\ UNCHANGED << callerVars, stopVars >>
    /\ UNCHANGED newVars

\* timer.timer.Reset(timer.duration)
TimerResetShort(t) ==
    /\ tstate' = [tstate EXCEPT ![t] = "armed"]
    /\ armedFor' = [armedFor EXCEPT ![t] = 1]
TimerReset(t) ==
    /\ tstate' = [tstate EXCEPT ![t] = "armed"]
    /\ armedFor' = [armedFor EXCEPT ![t] = duration[t]]

\* if timer.interval
RearmAlways(t) == TRUE
Rearm(t) == interval[t]

\* if err != nil: the error is printed and the loop goes on
ErrBreaksLoop(err) == err
ErrIsFatal(err) == FALSE

\* case timer := <-ready, after vm.Call returned: reschedule or remove
FinishCallback ==
    /\ pc = "callback"
    /\ running' = running \ {Callback(timer)}
    /\ timer' = NoTimer
    /\ invoked' = << >>
    /\ jsErr' = FALSE
    /\ IF ErrIsFatal(jsErr)
         THEN /\ pc' = "cleanup"
              /\ UNCHANGED << registry, tstate, armedFor >>
         ELSE IF Rearm(timer)
         THEN /\ TimerReset(timer)
              /\ registry' = registry
              /\ pc' = "select"
         ELSE /\ registry' = registry \ {timer}
              /\ pc' = IF DrainDone(registry \ {timer}) THEN "cleanup" ELSE "select"
              /\ UNCHANGED << tstate, armedFor >>
    /\ UNCHANGED << req, reentered, waitForCallbacks, loopWg >>
    /\ UNCHANGED << nextTimer, interval, duration, call, fires, cancelled >>
    /\ UNCHANGED << callerVars, stopVars >>
    /\ UNCHANGED newVars

\* do() called by code that runs on the loop goroutine, run in place
ReentrantDoInline ==
    /\ InScript
    /\ reentered' = TRUE
    /\ UNCHANGED << pc, req, timer, invoked, jsErr, waitForCallbacks, loopWg,
                    running >>
    /\ UNCHANGED << timerVars, callerVars, stopVars >>
    /\ UNCHANGED newVars

\* do() called by code that runs on the loop goroutine (a request's fn, a
\* timer callback, a binding): the goroutine blocks in self.evalQueue <- req,
\* a channel only this goroutine receives from
ReentrantDo ==
    /\ InScript
    /\ reentered' = TRUE
    /\ pc' = "blocked"
    /\ UNCHANGED << req, timer, invoked, jsErr, waitForCallbacks, loopWg,
                    running >>
    /\ UNCHANGED << timerVars, callerVars, stopVars >>
    /\ UNCHANGED newVars

\* the sender a receive from an unbuffered channel pairs with: the one that
\* has been blocked longest
Newest(q) == Len(q)
Oldest(q) == 1

Remove(q, i) == SubSeq(q, 1, i - 1) \o SubSeq(q, i + 1, Len(q))

\* case req := <-self.evalQueue, receiving and calling req.fn before close:
\* the done channel is closed here, before fn has run
AcceptReqCloseEarly ==
    /\ pc = "select"
    /\ evalQueue # << >>
    /\ LET c == Head(evalQueue) IN
        /\ evalQueue' = Tail(evalQueue)
        /\ cstate' = [cstate EXCEPT ![c] = "waiting"]
        /\ ticket' = [ticket EXCEPT ![c] = 0]
        /\ closed' = [closed EXCEPT ![c] = 1]
        /\ served' = served + 1
        /\ pc' = "fn"
        /\ req' = c
        /\ running' = running \cup {ReqFn(c)}
    /\ UNCHANGED << timer, invoked, jsErr, reentered,
                    waitForCallbacks, loopWg >>
    /\ UNCHANGED << ran, arrivals >>
    /\ UNCHANGED << registry, nextTimer, interval, duration, call, tstate, armedFor,
                    fires, cancelled, stopQueue, sstate >>
    /\ UNCHANGED newVars

\* case req := <-self.evalQueue, up to the call of req.fn
AcceptReq ==
    /\ AtSelect
    /\ evalQueue # << >>
    /\ LET i == Oldest(evalQueue)
           c == evalQueue[i] IN
        /\ evalQueue' = Remove(evalQueue, i)
        /\ cstate' = [cstate EXCEPT ![c] = "waiting"]
        /\ ticket' = [ticket EXCEPT ![c] = 0]
        /\ served' = served + 1
        /\ pc' = "fn"
        /\ req' = c
        /\ running' = running \cup {ReqFn(c)}
    /\ UNCHANGED << timer, invoked, jsErr, reentered,
                    waitForCallbacks, loopWg >>
    /\ UNCHANGED << closed, ran, arrivals >>
    /\ UNCHANGED << timerVars, stopVars >>
    /\ UNCHANGED newVars

\* case req := <-self.evalQueue, after req.fn returned: close(req.done)
FinishReq ==
    /\ pc = "fn"
    /\ running' = running \ {ReqFn(req)}
    /\ ran' = [ran EXCEPT ![req] = TRUE]
    /\ closed' = [closed EXCEPT ![req] = Min(@ + 1, 2)]
    /\ req' = NoOne
    /\ pc' = IF DrainDone(registry) THEN "cleanup" ELSE "select"
    /\ UNCHANGED << timer, invoked, jsErr, reentered,
                    waitForCallbacks, loopWg >>
    /\ UNCHANGED << evalQueue, cstate, ticket, arrivals, served >>
    /\ UNCHANGED << timerVars, stopVars >>
    /\ UNCHANGED newVars

\* the break condition of the stop case
StopNowBoth(flag, reg) == ~flag /\ reg = {}
StopNow(flag, reg) == ~flag \/ reg = {}

\* case waitForCallbacks = <-self.stopEventLoop
AcceptStop ==
    /\ AtSelect
    /\ stopQueue # << >>
    /\ LET s == Head(stopQueue) IN
        /\ stopQueue' = Tail(stopQueue)
        /\ sstate' = [sstate EXCEPT ![s] = "waiting"]
        /\ waitForCallbacks' = StopFlag[s]
        /\ pc' = IF StopNow(StopFlag[s], registry) THEN "cleanup" ELSE "select"
    /\ UNCHANGED << req, timer, invoked, jsErr, reentered,
                    loopWg, running >>
    /\ UNCHANGED << timerVars, callerVars >>
    /\ UNCHANGED newVars

\* after the loop: stop and delete every timer left in the registry
Cleanup ==
    /\ pc = "cleanup"
    /\ tstate' = [t \in Handles |->
                    IF t \in registry THEN TimerStop(tstate[t]) ELSE tstate[t]]
    /\ registry' = {}
    /\ pc' = "wgdone"
    /\ UNCHANGED << req, timer, invoked, jsErr, reentered,
                    waitForCallbacks, loopWg, running >>
    /\ UNCHANGED << nextTimer, interval, duration, call, armedFor, fires,
                    cancelled >>
    /\ UNCHANGED << callerVars, stopVars >>
    /\ UNCHANGED newVars

\* self.loopWg.Done(), the last statement of runEventLoop
LoopDone ==
    /\ pc = "wgdone"
    /\ loopWg' = loopWg - 1
    /\ pc' = "exited"
    /\ UNCHANGED << req, timer, invoked, jsErr, reentered,
                    waitForCallbacks, running >>
    /\ UNCHANGED << timerVars, callerVars, stopVars >>
    /\ UNCHANGED newVars

\* ------------------------------------------------------------ host goroutines
\* do: make the request and block in self.evalQueue <- req
DoCall(c) ==
    /\ cstate[c] = "idle"
    /\ arrivals < MaxReqs
    /\ arrivals' = arrivals + 1
    /\ ticket' = [ticket EXCEPT ![c] = arrivals + 1]
    /\ cstate' = [cstate EXCEPT ![c] = "sending"]
    /\ evalQueue' = Append(evalQueue, c)
    /\ UNCHANGED << closed, ran, served >>
    /\ UNCHANGED << loopVars, timerVars, stopVars >>
    /\ UNCHANGED newVars

\* do: <-done returns once the channel is closed
DoReturn(c) ==
    /\ cstate[c] = "waiting"
    /\ closed[c] > 0
    /\ cstate' = [cstate EXCEPT ![c] = "idle"]
    /\ closed' = [closed EXCEPT ![c] = 0]
    /\ ran' = [ran EXCEPT ![c] = FALSE]
    /\ UNCHANGED << evalQueue, ticket, arrivals, served >>
    /\ UNCHANGED << loopVars, timerVars, stopVars >>
    /\ UNCHANGED newVars

\* New: a statement that calls re.Compile, re.Set, re.Get or re.Run blocks
\* in do(); the next statement waits for its return
NewDo ==
    /\ newPc < NewReturned
    /\ NewProgram[newPc] \in NewViaQueue
    /\ cstate[Constructor] = "idle"
    /\ newPc' = newPc + 1
    /\ arrivals' = arrivals + 1
    /\ ticket' = [ticket EXCEPT ![Constructor] = arrivals + 1]
    /\ cstate' = [cstate EXCEPT ![Constructor] = "sending"]
    /\ evalQueue' = Append(evalQueue, Constructor)
    /\ UNCHANGED << closed, ran, served, touched >>
    /\ UNCHANGED << loopVars, timerVars, stopVars >>

\* New: os.Stat(rcpath) fails, so the rc file is not loaded
NewSkipRc ==
    /\ newPc < NewReturned
    /\ NewProgram[newPc] = "Run loadScript"
    /\ cstate[Constructor] = "idle"
    /\ newPc' = newPc + 1
    /\ UNCHANGED touched
    /\ UNCHANGED << loopVars, timerVars, callerVars, stopVars >>

\* New: fs.Set(...) and processObj.Set(...), executed by the caller of New
NewSet ==
    /\ newPc < NewReturned
    /\ NewProgram[newPc] \in NewDirect
    /\ cstate[Constructor] = "idle"
    /\ newPc' = newPc + 1
    /\ touched' = touched \cup {Constructor}
    /\ UNCHANGED << loopVars, timerVars, callerVars, stopVars >>

\* the request being served is the Run of the rc file
RunningRc ==
    /\ pc = "fn"
    /\ newPc > 1
    /\ NewProgram[newPc - 1] = "Run loadScript"

\* Stop: block in self.stopEventLoop <- waitForCallbacks
StopCall(s) ==
    /\ sstate[s] = "idle"
    /\ sstate' = [sstate EXCEPT ![s] = "sending"]
    /\ stopQueue' = Append(stopQueue, s)
    /\ UNCHANGED << loopVars, timerVars, callerVars >>
    /\ UNCHANGED newVars

\* self.loopWg.Wait() no longer blocks
WaitSkipped == TRUE
WaitDone == loopWg = 0

\* Stop: self.loopWg.Wait() returns when the counter is zero
StopReturn(s) ==
    /\ sstate[s] = "waiting"
    /\ WaitDone
    /\ sstate' = [sstate EXCEPT ![s] = "returned"]
    /\ UNCHANGED stopQueue
    /\ UNCHANGED << loopVars, timerVars, callerVars >>
    /\ UNCHANGED newVars

\* ------------------------------------------------------------ specification
Next ==
    \/ \E b \in BOOLEAN, d \in Delays : SetTimer(b, TimerCall(d))
    \/ \E v \in ClearArgs : ClearTimer(v)
    \/ \E t \in Handles : Expire(t)
    \/ \E t \in Handles : ReceiveReady(t, FALSE)
    \/ FinishCallback
    \/ AcceptReq
    \/ FinishReq
    \/ AcceptStop
    \/ Cleanup
    \/ LoopDone
    \/ \E c \in Callers : DoCall(c)
    \/ \E c \in Callers : DoReturn(c)
    \/ \E s \in Stoppers : StopCall(s)
    \/ \E s \in Stoppers : StopReturn(s)

Spec == Init /\ [][Next]_vars

\* one host goroutine, one Stop(false) caller, and two delays
TimerNext ==
    \/ \E b \in BOOLEAN, d \in AllDelays : SetTimer(b, TimerCall(d))
    \/ \E v \in ClearArgs : ClearTimer(v)
    \/ \E t \in Handles : Expire(t)
    \/ \E t \in Handles : ReceiveReady(t, FALSE)
    \/ FinishCallback
    \/ AcceptReq
    \/ FinishReq
    \/ AcceptStop
    \/ Cleanup
    \/ LoopDone
    \/ DoCall("h1")
    \/ DoReturn("h1")
    \/ StopCall("s2")
    \/ StopReturn("s2")

TimerSpec == Init /\ [][TimerNext]_vars

\* one host goroutine, one Stop(true) caller, and callbacks that may fail
ErrNext ==
    \/ \E b \in BOOLEAN, d \in Delays : SetTimer(b, TimerCall(d))
    \/ \E v \in ClearArgs : ClearTimer(v)
    \/ \E t \in Handles : Expire(t)
    \/ \E t \in Handles, err \in BOOLEAN : ReceiveReady(t, err)
    \/ FinishCallback
    \/ AcceptReq
    \/ FinishReq
    \/ AcceptStop
    \/ Cleanup
    \/ LoopDone
    \/ DoCall("h1")
    \/ DoReturn("h1")
    \/ StopCall("s1")
    \/ StopReturn("s1")

ErrSpec == Init /\ [][ErrNext]_vars

\* one host goroutine registering one timer with any of the argument lists
CallNext ==
    \/ \E b \in BOOLEAN, a \in ArgLists : nextTimer = 0 /\ SetTimer(b, a)
    \/ \E t \in Handles : Expire(t)
    \/ \E t \in Handles : ReceiveReady(t, FALSE)
    \/ FinishCallback
    \/ AcceptReq
    \/ FinishReq
    \/ DoCall("h1")
    \/ DoReturn("h1")

CallSpec == Init /\ [][CallNext]_vars

\* one host goroutine, one Stop(true) caller, and script code that may call
\* do() on the loop goroutine
ReentrantNext ==
    \/ \E b \in BOOLEAN, d \in Delays : SetTimer(b, TimerCall(d))
    \/ \E v \in ClearArgs : ClearTimer(v)
    \/ \E t \in Handles : Expire(t)
    \/ \E t \in Handles : ReceiveReady(t, FALSE)
    \/ FinishCallback
    \/ AcceptReq
    \/ FinishReq
    \/ ReentrantDo
    \/ AcceptStop
    \/ Cleanup
    \/ LoopDone
    \/ DoCall("h1")
    \/ DoReturn("h1")
    \/ StopCall("s1")
    \/ StopReturn("s1")

ReentrantSpec == Init /\ [][ReentrantNext]_vars

\* the constructor: the statements of New, the loop serving its requests, and
\* the timers the rc file may register
NewNext ==
    \/ NewDo
    \/ NewSet
    \/ NewSkipRc
    \/ \E b \in BOOLEAN, d \in Delays : RunningRc /\ SetTimer(b, TimerCall(d))
    \/ \E t \in Handles : Expire(t)
    \/ \E t \in Handles : ReceiveReady(t, FALSE)
    \/ FinishCallback
    \/ AcceptReq
    \/ FinishReq
    \/ DoReturn(Constructor)

NewSpec == NewInit /\ [][NewNext]_vars

\* ------------------------------------------------------------ properties
Terminated == pc \in {"cleanup", "wgdone", "exited"}

\* C1: at most one piece of script logic (a request's fn or a timer callback)
\* executes against the vm in any reachable state.
OneScriptAtATime == Cardinality(running) <= 1

\* a callback runs while a request and an expired timer are both waiting
OneScriptBusy ==
    /\ pc = "callback"
    /\ evalQueue # << >>
    /\ \E t \in Handles : tstate[t] = "sending"

\* C2: once clearTimeout/clearInterval has been applied to a handle, the loop
\* never again starts that timer's callback.
CancelledNeverFires ==
    [][\A t \in Handles :
          t \in cancelled => ~(pc = "select" /\ pc' = "callback" /\ timer' = t)]_vars

\* C3: the done channel of a request is closed at most once and only after
\* its fn has run to completion, and do() returns only after that close.
OneSignalAfterFn ==
    [][\A c \in Callers :
          /\ closed'[c] <= 1
          /\ closed'[c] = 1 => ran'[c]
          /\ (cstate[c] = "waiting" /\ cstate'[c] = "idle")
                => (ran[c] /\ closed[c] = 1)]_vars

\* a caller holds its completion signal and has not returned yet, while the
\* other caller's request is still queued
SignalDelivered ==
    \E c \in Callers :
        /\ cstate[c] = "waiting"
        /\ closed[c] = 1
        /\ ran[c]
        /\ evalQueue # << >>

\* C4 (as stated): once Stop(true) has been accepted the loop does not leave
\* its for loop while a timer is in the registry.
DrainNeverAbandonsTimers ==
    [][(waitForCallbacks /\ ~Terminated /\ Terminated') => registry' = {}]_vars

\* C4 (amended): once Stop(true) has been accepted the loop does not leave
\* its for loop while a timer is in the registry, unless it accepts a later
\* Stop(false); and the Stop(true) call returns only with the registry empty.
DrainKeepsTimersUnlessStopFalse ==
    [][/\ (waitForCallbacks /\ waitForCallbacks' /\ ~Terminated /\ Terminated')
             => registry' = {}
       /\ sstate'["s1"] = "returned" => registry' = {}]_vars

\* a request runs during the drain while two timers are registered
DrainWithTimers ==
    /\ waitForCallbacks
    /\ sstate["s1"] = "waiting"
    /\ pc = "fn"
    /\ Cardinality(registry) = 2

\* C5: after Stop(true) has been accepted the loop is never back in its
\* select with an empty registry: it terminates as soon as the registry is
\* empty.
DrainEndsWhenEmpty == ~(waitForCallbacks /\ pc = "select" /\ registry = {})

\* C6: a stop signal with drain=false, or with drain=true and an empty
\* registry, makes the loop leave its for loop in that very step, and after
\* that no request is received and no timer callback is invoked.
StopEndsLoopAtOnce ==
    [][/\ (Len(stopQueue') < Len(stopQueue)
             /\ (~StopFlag[Head(stopQueue)] \/ registry = {}))
          => Terminated'
       /\ Terminated
          => (Terminated' /\ fires' = fires /\ served' = served
                /\ running' = {})]_vars

\* the loop has exited on Stop(false) with an expired timer undelivered, a
\* timer still armed when the signal came and a request still queued
StoppedWithWorkLeft ==
    /\ pc = "exited"
    /\ ~waitForCallbacks
    /\ \E t \in Handles : tstate[t] = "sending"
    /\ \E t \in Handles : tstate[t] = "idle" /\ fires[t] = 0 /\ t \notin cancelled
    /\ evalQueue # << >>

\* C7: Stop returns only after the loop goroutine has finished: the loop is
\* past loopWg.Done, runs nothing, and has emptied the registry.
StopReturnsAfterExit ==
    \A s \in Stoppers :
        sstate[s] = "returned" => (pc = "exited" /\ registry = {} /\ running = {})

\* both Stop calls have returned, the drain having been cut by Stop(false)
BothStopsReturned == \A s \in Stoppers : sstate[s] = "returned"

\* C8: a one-shot timer's callback is invoked at most once, and once it has
\* been invoked and has returned the timer is out of the registry and its
\* time.Timer is never armed again.
OneShotFiresOnce ==
    \A t \in Handles :
        (tstate[t] # "none" /\ ~interval[t]) =>
            /\ fires[t] <= 1
            /\ (fires[t] = 1 /\ timer # t)
                  => (t \notin registry /\ tstate[t] = "idle")

\* an uncancelled one-shot timer has fired and the loop is back in select
OneShotFired ==
    \E t \in Handles :
        /\ tstate[t] # "none"
        /\ ~interval[t]
        /\ t \notin cancelled
        /\ fires[t] = 1
        /\ pc = "select"

\* C9: when the callback of a periodic timer that is in the registry
\* returns, the same time.Timer is armed again with the timer's original
\* delay, no jsTimer is allocated and the registry is left as it is.
IntervalRearmedInPlace ==
    [][\A t \in Handles :
          (pc = "callback" /\ timer = t /\ interval[t] /\ t \in registry
             /\ pc' # "callback")
          => /\ tstate'[t] = "armed"
             /\ armedFor'[t] = duration[t]
             /\ duration' = duration
             /\ interval' = interval
             /\ nextTimer' = nextTimer
             /\ registry' = registry]_vars

\* a periodic timer with a 3 ms delay has fired twice and is armed again
IntervalFiredTwice ==
    \E t \in Handles :
        /\ interval[t]
        /\ duration[t] = 3
        /\ fires[t] = 2
        /\ t \in registry
        /\ tstate[t] = "armed"
        /\ pc = "select"

\* C10: the loop receives requests in the order in which they arrived at
\* evalQueue: the k-th request it runs is the k-th that arrived, whichever
\* goroutine sent it (so each goroutine's own order is kept as well).
ServedInArrivalOrder ==
    [][served' = served + 1
          => (pc' = "fn" /\ ticket[req'] = served + 1)]_vars

\* the first arrival runs while the other goroutine's request waits
SecondWaitsForFirst ==
    /\ pc = "fn"
    /\ served = 1
    /\ Len(evalQueue) = 1
    /\ ticket[evalQueue[1]] = 2

\* C16: whenever the loop is back in its select, a timer is in the registry
\* exactly when its time.Timer is armed or its expiry is waiting on ready.
RegistryIffArmed ==
    pc = "select" =>
        \A t \in Handles : t \in registry <=> tstate[t] \in {"armed", "sending"}

\* C17: once the loop has exited the registry is empty and no time.Timer
\* made by newTimer is still armed.
NothingArmedAfterExit ==
    pc = "exited" =>
        (registry = {} /\ \A t \in Handles : tstate[t] # "armed")

\* C18: the registry changes only in steps of the loop goroutine (script
\* builtins, the end of a callback, the cleanup), and the expiry of a timer
\* changes nothing but that time.Timer: the registry, every jsTimer field,
\* the other timers and the loop are left as they are.
RegistryOwnedByLoop ==
    [][/\ registry' # registry => pc \in {"fn", "callback", "cleanup"}
       /\ \A t \in Handles :
            (tstate[t] = "armed" /\ tstate'[t] = "sending")
            => /\ registry' = registry
               /\ interval' = interval
               /\ duration' = duration
               /\ armedFor' = armedFor
               /\ fires' = fires
               /\ cancelled' = cancelled
               /\ pc' = pc
               /\ \A u \in Handles \ {t} : tstate'[u] = tstate[u]]_vars

\* a registered timer has expired while the loop runs a request, and waits
ExpiredWhileBusy ==
    /\ pc = "fn"
    /\ \E t \in Handles : tstate[t] = "sending" /\ t \in registry

\* C12: in every reachable state, applying clearTimeout to a value a second
\* time changes nothing the first application left; applying it to a
\* one-shot timer that has fired and is done changes nothing at all, and
\* that timer has not fired twice; applying it to a value that is no timer
\* handle leaves the registry and the timers as they are.
ClearIsIdempotent ==
    \A v \in (1 .. nextTimer) \cup {NotAHandle} :
        LET reg1 == ClearRegistry(registry, v)
            ts1 == ClearTimers(tstate, v)
        IN  /\ ClearRegistry(reg1, v) = reg1
            /\ ClearTimers(ts1, v) = ts1
            /\ ~IsTimer(v) => (reg1 = registry /\ ts1 = tstate)
            /\ (IsTimer(v) /\ ~interval[v] /\ fires[v] >= 1 /\ timer # v)
                  => (reg1 = registry /\ ts1 = tstate /\ fires[v] = 1)

\* script code has applied clearTimeout to a one-shot timer that had fired
ClearedAfterFire ==
    \E t \in Handles :
        /\ InScript
        /\ ~interval[t]
        /\ fires[t] = 1
        /\ timer # t
        /\ t \in cancelled

\* C11: the delay stored in a timer, and the delay its time.Timer is armed
\* with whenever it is armed (first and again after each fire), is the
\* delay argument if that is a positive number and 1 ms if it is zero,
\* negative, missing or no number.
DelayClamped ==
    \A t \in 1 .. nextTimer :
        LET d == IF Len(call[t]) >= 2 THEN call[t][2] ELSE Undefined
            want == IF d[1] = "number" /\ d[2] > 0 THEN d[2] ELSE 1
        IN  /\ duration[t] = want
            /\ tstate[t] = "armed" => armedFor[t] = want

\* a periodic timer registered with a zero, negative, missing or
\* non-numeric delay has fired and is armed again
ClampedTimerRearmed ==
    \E t \in Handles :
        /\ interval[t]
        /\ fires[t] = 1
        /\ tstate[t] = "armed"
        /\ pc = "select"
        /\ \/ Len(call[t]) = 1
           \/ /\ Len(call[t]) >= 2
              /\ call[t][2] \in {Num(0), Num(-1), Undefined, Str(2)}

\* C13: while a timer's callback runs, it has been called as cb(a1..an),
\* where the timer was registered as setTimeout(cb, d, a1..an): the first
\* argument of the registration is the function called, and the arguments
\* after the delay are its arguments, in order.
CallbackGetsBoundArgs ==
    pc = "callback" =>
        LET a == call[timer] IN
            /\ invoked[1] = a[1]
            /\ Len(invoked) = (IF Len(a) > 2 THEN Len(a) - 1 ELSE 1)
            /\ \A i \in 3 .. Len(a) : invoked[i - 1] = a[i]

\* a callback registered with two different bound arguments is running
CallbackWithTwoArgs ==
    /\ pc = "callback"
    /\ Len(call[timer]) = 4
    /\ call[timer][3] # call[timer][4]
    /\ Len(invoked) = 3

\* C14: when the callback of a timer has returned an error, the loop goes
\* back to its select, a periodic timer is armed again with its delay and
\* the registry is untouched, and a one-shot timer is removed from the
\* registry and not armed again.
FailedCallbackChangesNothing ==
    [][(pc = "callback" /\ jsErr /\ pc' # "callback")
          => /\ pc' = "select" \/ (waitForCallbacks /\ registry' = {})
             /\ interval[timer]
                   => /\ tstate'[timer] = "armed"
                      /\ armedFor'[timer] = duration[timer]
                      /\ registry' = registry
             /\ ~interval[timer]
                   => /\ registry' = registry \ {timer}
                      /\ tstate' = tstate]_vars

\* the callback of a registered periodic timer fails on its second fire
\* while a request is waiting to be served
FailingIntervalCallback ==
    /\ pc = "callback"
    /\ jsErr
    /\ interval[timer]
    /\ fires[timer] = 2
    /\ timer \in registry
    /\ evalQueue # << >>

\* C19: once code running on the loop goroutine has called do(), that call
\* never returns (the goroutine stays blocked in it), and from then on no
\* request is received or completed, no timer callback is invoked, no stop
\* signal is received, and the registry is not touched.
ReentrantDoDeadlocks ==
    [][reentered
          => /\ pc' = "blocked"
             /\ served' = served
             /\ \A c \in Callers : closed'[c] <= closed[c]
             /\ fires' = fires
             /\ running' = running
             /\ registry' = registry
             /\ Len(evalQueue') >= Len(evalQueue)
             /\ Len(stopQueue') >= Len(stopQueue)
             /\ \A s \in Stoppers : sstate[s] = "sending" => sstate'[s] = "sending"]_vars

\* the loop goroutine is blocked in its own do() while a request, a stop
\* signal and an expired timer are waiting for it
BlockedWithWorkWaiting ==
    /\ reentered
    /\ pc = "blocked"
    /\ evalQueue # << >>
    /\ stopQueue # << >>
    /\ \E t \in Handles : tstate[t] = "sending"

\* C20: when the loop decides to terminate (at once after a stop signal, or
\* at the end of a drain), no do() call is waiting on the evaluation queue:
\* the loop receives nothing after that decision, so a call waiting then
\* would never return.
NoRequestWaitingAtTermination ==
    [][(~Terminated /\ Terminated') => evalQueue = << >>]_vars

\* C15: only the loop goroutine accesses the vm and its objects: no other
\* goroutine, the caller of New included, reads or changes them directly.
OnlyLoopTouchesVm == touched \subseteq {LoopGoroutine}
====
